---------------------------- MODULE Spec2Model ----------------------------
(***************************************************************************)
(* Model of src/main.py: the Unicode-tolerant file lookup                  *)
(* (normalize_filename, find_file_safe), the two cached loaders            *)
(* (load_environment_data, load_growth_data) and the page render (main).   *)
(*                                                                         *)
(* Text is a sequence of Unicode code points.  The "data" directory is     *)
(* dirKind (absent / a regular file / a directory) with its enumeration    *)
(* `entries` in iterdir() order.                                           *)
(***************************************************************************)
EXTENDS Naturals, Integers, Sequences, FiniteSets, TLC

VARIABLES
    dirKind,      \* what the path "data" is: "absent", "file" or "dir"
    entries,      \* data_path.iterdir(): sequence of [name, kind, inside, content]
    normalized,   \* st.cache_data store of normalize_filename: text -> (nfc, nfd)
    findCache,    \* st.cache_data store of find_file_safe: set of <<pattern, files>>
    lastFind,     \* the latest call of find_file_safe and what it gave
    fresh,        \* TRUE iff "data" was not changed since that call
    envCache,     \* st.cache_data store of load_environment_data
    growthCache,  \* st.cache_data store of load_growth_data
    page          \* the latest run of main()

vars == <<dirKind, entries, normalized, findCache, lastFind, fresh, envCache, growthCache, page>>

(***************************************************************************)
(* Bounds of the model.                                                    *)
(***************************************************************************)
MaxEntries == 3      \* SpecFind: entries of "data" at most
MaxCacheDir == 2     \* SpecCache: entries of "data" at most
MaxFiles == 2        \* Spec: entries of "data" at most

(***************************************************************************)
(* unicodedata.normalize for Hangul (conjoining jamo, precomposed          *)
(* syllables) and characters without a decomposition (ASCII).              *)
(***************************************************************************)
SBase == 44032       \* U+AC00
LBase == 4352        \* U+1100
VBase == 4449        \* U+1161
TBase == 4519        \* U+11A7
LCount == 19
VCount == 21
TCount == 28
NCount == 588        \* VCount * TCount
SCount == 11172      \* LCount * NCount

IsSyllable(c) == SBase <= c /\ c < SBase + SCount
IsL(c) == LBase <= c /\ c < LBase + LCount
IsV(c) == VBase <= c /\ c < VBase + VCount
IsT(c) == TBase < c /\ c < TBase + TCount
IsLV(c) == IsSyllable(c) /\ (c - SBase) % TCount = 0

\* canonical decomposition of one code point
Decompose(c) ==
    IF IsSyllable(c)
    THEN LET SIndex == c - SBase
             L == LBase + (SIndex \div NCount)
             V == VBase + ((SIndex % NCount) \div TCount)
             T == TBase + (SIndex % TCount)
         IN IF T = TBase THEN <<L, V>> ELSE <<L, V, T>>
    ELSE <<c>>

RECURSIVE NFD(_)
NFD(s) == IF s = <<>> THEN <<>> ELSE Decompose(Head(s)) \o NFD(Tail(s))

\* canonical composition of a decomposed text, one code point at a time
RECURSIVE Compose(_, _)
Compose(out, s) ==
    IF s = <<>> THEN out
    ELSE LET c == Head(s)
             n == Len(out)
             last == IF n = 0 THEN 0 ELSE out[n]
         IN IF n > 0 /\ IsL(last) /\ IsV(c)
            THEN Compose([out EXCEPT ![n] =
                            SBase + ((last - LBase) * VCount + (c - VBase)) * TCount],
                         Tail(s))
            ELSE IF n > 0 /\ IsLV(last) /\ IsT(c)
            THEN Compose([out EXCEPT ![n] = last + (c - TBase)], Tail(s))
            ELSE Compose(Append(out, c), Tail(s))

NFC(s) == Compose(<<>>, NFD(s))

\* Python's `a in b` on str
IsSubstring(a, b) ==
    \E i \in 0..(Len(b) - Len(a)) : SubSeq(b, i + 1, i + Len(a)) = a

(***************************************************************************)
(* SCHOOL_INFO and the literals of the program.                            *)
(***************************************************************************)
SCHOOL_INFO == <<
    [name |-> <<49569, 46020, 44256>>, ec |-> 1, color |-> "#4A90E2"],   \* 송도고
    [name |-> <<54616, 45720, 44256>>, ec |-> 2, color |-> "#50C878"],   \* 하늘고
    [name |-> <<50500, 46972, 44256>>, ec |-> 4, color |-> "#F39C12"],   \* 아라고
    [name |-> <<46041, 49328, 44256>>, ec |-> 8, color |-> "#E74C3C"] >> \* 동산고

SchoolNames == {SCHOOL_INFO[i].name : i \in DOMAIN SCHOOL_INFO}

\* f"{school}_환경데이터.csv"
EnvPattern(school) ==
    school \o <<95, 54872, 44221, 45936, 51060, 53552, 46, 99, 115, 118>>

\* "4개교_생육결과데이터.xlsx"
GrowthPattern ==
    <<52, 44060, 44368, 95, 49373, 50977, 44208, 44284, 45936, 51060, 53552,
      46, 120, 108, 115, 120>>

(***************************************************************************)
(* What "data" may hold: entries [name, kind, inside, content].  A file's  *)
(* content is [fmt, cols, rows, sheets]: a table ("csv": cols maps each    *)
(* column it has to the column's mean), a workbook ("xlsx": sheets         *)
(* [sheet_name, ok, cols, rows], ok: pd.read_excel parses the sheet) or    *)
(* something unreadable ("corrupt").                                       *)
(***************************************************************************)
ALL == <<51204, 52404>>                                     \* "전체"
COL_WEIGHT == <<49373, 51473, 47049, 40, 103, 41>>          \* '생중량(g)'
COL_LEAVES == <<51086, 32, 49688, 40, 51109, 41>>           \* '잎 수(장)'
COL_HEIGHT == <<51648, 49345, 48512, 32, 44600, 51060, 40, 109, 109, 41>>  \* '지상부 길이(mm)'


NoContent == [fmt |-> "none", cols |-> <<>>, rows |-> 0, sheets |-> <<>>]

EnvTable(temperature, humidity, ph, ec) ==
    [fmt |-> "csv", rows |-> 3, sheets |-> <<>>,
     cols |-> [temperature |-> temperature, humidity |-> humidity, ph |-> ph, ec |-> ec]]

Corrupt == [fmt |-> "corrupt", cols |-> <<>>, rows |-> 0, sheets |-> <<>>]

GrowthCols(weight, leaves, height) ==
    [col \in {COL_WEIGHT, COL_LEAVES, COL_HEIGHT} |->
        IF col = COL_WEIGHT THEN weight ELSE IF col = COL_LEAVES THEN leaves ELSE height]

Sheet(sheet_name, weight) ==
    [sheet_name |-> sheet_name, ok |-> TRUE, rows |-> 2, cols |-> GrowthCols(weight, 5, 30)]

Workbook(sheets) == [fmt |-> "xlsx", cols |-> <<>>, rows |-> 0, sheets |-> sheets]

File(name, content) == [name |-> name, kind |-> "file", inside |-> <<>>, content |-> content]

S1 == SCHOOL_INFO[1].name
S2 == SCHOOL_INFO[2].name
S3 == SCHOOL_INFO[3].name
S4 == SCHOOL_INFO[4].name

EnvFiles == {
    \* 송도고: composed name, a full table
    File(NFC(EnvPattern(S1)), EnvTable(20, 60, 6, 1)),
    \* 하늘고: decomposed name, a full table
    File(NFD(EnvPattern(S2)), EnvTable(24, 50, 7, 2)),
    \* 아라고: not a readable CSV
    File(NFC(EnvPattern(S3)), Corrupt),
    \* 동산고: a table without the temperature column
    File(NFC(EnvPattern(S4)),
         [fmt |-> "csv", rows |-> 3, sheets |-> <<>>,
          cols |-> [humidity |-> 55, ph |-> 6, ec |-> 8]]),
    \* a subdirectory named as 송도고's file, decomposed
    [name |-> NFD(EnvPattern(S1)), kind |-> "dir", inside |-> <<>>, content |-> NoContent] }

GrowthFiles == {
    \* a sheet per school
    File(GrowthPattern, Workbook(<<Sheet(S1, 2), Sheet(S2, 3)>>)),
    \* every mean fresh weight is 0
    File(GrowthPattern, Workbook(<<Sheet(S1, 0), Sheet(S2, 0)>>)),
    \* the second sheet cannot be parsed
    File(NFD(GrowthPattern), Workbook(<<Sheet(S1, 2), [Sheet(S2, 3) EXCEPT !.ok = FALSE]>>)),
    \* sheets "하늘고_송도고", "Sheet1", "송도고2", "동산고"
    File(GrowthPattern,
         Workbook(<<Sheet(S2 \o <<95>> \o S1, 2), Sheet(<<83, 104, 101, 101, 116, 49>>, 9),
                    Sheet(S1 \o <<50>>, 5), Sheet(S4, 1)>>)),
    \* a sheet without the fresh-weight column
    File(GrowthPattern,
         Workbook(<< [Sheet(S1, 2) EXCEPT
                        !.cols = [col \in {COL_LEAVES, COL_HEIGHT} |-> 5]] >>)),
    \* not a workbook
    File(GrowthPattern, Corrupt) }

PagePool == EnvFiles \cup GrowthFiles


\* names on disk: 가.csv composed and decomposed, 각.csv, a directory 가 holding
\* a file 가.csv, x.csv, 송도고_환경데이터.csv composed and decomposed
FindPool == {
    [name |-> <<44032, 46, 99, 115, 118>>, kind |-> "file", inside |-> <<>>, content |-> NoContent],
    [name |-> <<4352, 4449, 46, 99, 115, 118>>, kind |-> "file", inside |-> <<>>, content |-> NoContent],
    [name |-> <<44033, 46, 99, 115, 118>>, kind |-> "file", inside |-> <<>>, content |-> NoContent],
    [name |-> <<44032>>, kind |-> "dir",
        inside |-> << <<44032, 46, 99, 115, 118>> >>, content |-> NoContent],
    [name |-> <<120, 46, 99, 115, 118>>, kind |-> "file", inside |-> <<>>, content |-> NoContent],
    [name |-> NFC(EnvPattern(SCHOOL_INFO[1].name)), kind |-> "file", inside |-> <<>>, content |-> NoContent],
    [name |-> NFD(EnvPattern(SCHOOL_INFO[1].name)), kind |-> "file", inside |-> <<>>, content |-> NoContent] }

\* patterns asked for: 가 composed and decomposed, 가.csv decomposed, 각, "",
\* .csv, 송도고_환경데이터.csv composed and decomposed
PatternPool == {
    <<44032>>, <<4352, 4449>>, <<4352, 4449, 46, 99, 115, 118>>, <<44033>>, <<>>,
    <<46, 99, 115, 118>>,
    NFC(EnvPattern(SCHOOL_INFO[1].name)), NFD(EnvPattern(SCHOOL_INFO[1].name)) }


\* 가.csv composed and decomposed, x.csv
CachePool == {
    [name |-> <<44032, 46, 99, 115, 118>>, kind |-> "file", inside |-> <<>>, content |-> NoContent],
    [name |-> <<4352, 4449, 46, 99, 115, 118>>, kind |-> "file", inside |-> <<>>, content |-> NoContent],
    [name |-> <<120, 46, 99, 115, 118>>, kind |-> "file", inside |-> <<>>, content |-> NoContent] }

\* 가 composed and decomposed, x
CachePatterns == { <<44032>>, <<4352, 4449>>, <<120>> }


\* every text the model normalizes
KnownTexts ==
    {e.name : e \in PagePool \cup FindPool \cup CachePool}
        \cup PatternPool \cup CachePatterns \cup {GrowthPattern}
        \cup {EnvPattern(school) : school \in SchoolNames}

(***************************************************************************)
(* normalize_filename, under @st.cache_data: the pair is computed once for *)
(* a text and kept in the store.  The function is pure, so what the store  *)
(* holds for a text never differs from what a call computes; the store is  *)
(* shown with the texts of the model in it.                                *)
(***************************************************************************)
NormalForms == [filename \in KnownTexts |-> [nfc |-> NFC(filename), nfd |-> NFD(filename)]]

normalize_filename(filename) ==
    IF filename \in DOMAIN normalized THEN normalized[filename]
    ELSE [nfc |-> NFC(filename), nfd |-> NFD(filename)]

(***************************************************************************)
(* find_file_safe(directory, pattern), the function under the decorator.   *)
(* ioError: the enumeration of an existing directory fails (OSError).      *)
(***************************************************************************)
\* what Path.exists() would give in place of is_file(): every entry counts
is_file_exists(file_path) == file_path.kind \in {"file", "dir"}

is_file(file_path) == file_path.kind = "file"

\* the comparison without normalization: plain substring test on the raw texts
name_matches_raw(name, pattern) == IsSubstring(pattern, name)

name_matches(name, pattern) ==
    LET n == normalize_filename(name)
        p == normalize_filename(pattern)
    IN \/ IsSubstring(p.nfc, n.nfc)
       \/ IsSubstring(p.nfd, n.nfd)
       \/ IsSubstring(p.nfc, n.nfd)
       \/ IsSubstring(p.nfd, n.nfc)

RECURSIVE scan_entries(_, _, _)
scan_entries(rest, pattern, found_files) ==
    IF rest = <<>> THEN found_files
    ELSE LET file_path == Head(rest)
         IN scan_entries(Tail(rest), pattern,
                IF is_file(file_path) /\ name_matches(file_path.name, pattern)
                THEN Append(found_files, file_path.name)
                ELSE found_files)

find_file_safe(kind, listing, pattern, ioError) ==
    IF kind = "absent" THEN [exc |-> "", files |-> <<>>]
    ELSE IF kind = "file" THEN [exc |-> "NotADirectoryError", files |-> <<>>]
    ELSE IF ioError THEN [exc |-> "OSError", files |-> <<>>]
    ELSE [exc |-> "", files |-> scan_entries(listing, pattern, <<>>)]


(***************************************************************************)
(* Directory listings: sequences of entries with pairwise different names. *)
(***************************************************************************)
Listings(pool, maxLen) ==
    {s \in UNION {[1..n -> pool] : n \in 0..maxLen} :
        \A i, j \in DOMAIN s : i # j => s[i].name # s[j].name}

NoFind == [called |-> FALSE, pattern |-> <<>>, hit |-> FALSE, exc |-> "", files |-> <<>>]
\* main() has not run
NoPage == [status |-> "none", exc |-> "", selected |-> <<>>,
           envReturned |-> FALSE, growthReturned |-> FALSE, failedAt |-> 0,
           env |-> <<>>, growth |-> <<>>, messages |-> <<>>, calls |-> <<>>,
           charts |-> <<>>, info_keys |-> {}, total_samples |-> 0,
           avg_temp |-> [sum |-> 0, n |-> 0], avg_humidity |-> [sum |-> 0, n |-> 0],
           max_school |-> <<>>, max_weight |-> 0]

(***************************************************************************)
(* SpecFind: find_file_safe applied to a directory and a pattern.          *)
(***************************************************************************)
InitFind ==
    /\ dirKind \in {"absent", "file", "dir"}
    /\ entries \in (IF dirKind = "dir" THEN Listings(FindPool, MaxEntries) ELSE {<<>>})
    /\ normalized = NormalForms
    /\ findCache = {}
    /\ lastFind = NoFind
    /\ fresh = TRUE
    /\ envCache = <<>>
    /\ growthCache = <<>>
    /\ page = NoPage

\* one call of the function body
CallBody(pattern, ioError) ==
    /\ lastFind' = [called |-> TRUE, pattern |-> pattern, hit |-> FALSE]
                     @@ find_file_safe(dirKind, entries, pattern, ioError)
    /\ fresh' = TRUE
    /\ UNCHANGED <<dirKind, entries, findCache, envCache, growthCache, page, normalized>>

NextFind == \E pattern \in PatternPool, ioError \in BOOLEAN : CallBody(pattern, ioError)

SpecFind == InitFind /\ [][NextFind]_vars

(***************************************************************************)
(* Claims about find_file_safe, checked under SpecFind.                    *)
(***************************************************************************)
\* the matching rule as the specification words it
ClaimMatch(name, pattern) ==
    \/ IsSubstring(NFC(pattern), NFC(name))
    \/ IsSubstring(NFD(pattern), NFD(name))
    \/ IsSubstring(NFC(pattern), NFD(name))
    \/ IsSubstring(NFD(pattern), NFC(name))

PositionOf(name) == CHOOSE i \in DOMAIN entries : entries[i].name = name

C2_NoDirectoryGivesEmpty ==
    (lastFind.called /\ dirKind \in {"absent", "file"}) =>
        (lastFind.exc = "" /\ lastFind.files = <<>>)

ContainsInEitherForm(name, n) ==
    \/ IsSubstring(NFC(n), NFC(name))
    \/ IsSubstring(NFD(n), NFD(name))

RenamedNFC == [i \in DOMAIN entries |-> [entries[i] EXCEPT !.name = NFC(@)]]
RenamedNFD == [i \in DOMAIN entries |-> [entries[i] EXCEPT !.name = NFD(@)]]

cache_lookup_any_key(cache, pattern) == cache

cache_lookup(cache, pattern) == {e \in cache : e[1] = pattern}

cached_find_file_safe(cache, kind, listing, pattern, ioError) ==
    LET stored == cache_lookup(cache, pattern)
    IN IF stored # {}
       THEN [hit |-> TRUE, exc |-> "", files |-> (CHOOSE e \in stored : TRUE)[2],
             cache |-> cache]
       ELSE LET r == find_file_safe(kind, listing, pattern, ioError)
            IN [hit |-> FALSE, exc |-> r.exc, files |-> r.files,
                cache |-> IF r.exc = "" THEN cache \cup {<<pattern, r.files>>}
                          ELSE cache]

(***************************************************************************)
(* SpecCache: calls of the decorated find_file_safe while files come and   *)
(* go in "data".                                                           *)
(***************************************************************************)
InitCache ==
    /\ dirKind = "dir"
    /\ entries = <<>>
    /\ normalized = NormalForms
    /\ findCache = {}
    /\ lastFind = NoFind
    /\ fresh = TRUE
    /\ envCache = <<>>
    /\ growthCache = <<>>
    /\ page = NoPage

CallFindFileSafe(pattern, ioError) ==
    LET r == cached_find_file_safe(findCache, dirKind, entries, pattern, ioError)
    IN /\ lastFind' = [called |-> TRUE, pattern |-> pattern, hit |-> r.hit,
                       exc |-> r.exc, files |-> r.files]
       /\ findCache' = r.cache
       /\ fresh' = TRUE
       /\ UNCHANGED <<dirKind, entries, envCache, growthCache, page, normalized>>

\* a file appears in "data"
CreateEntry(e) ==
    /\ dirKind = "dir"
    /\ Len(entries) < MaxCacheDir
    /\ \A i \in DOMAIN entries : entries[i].name # e.name
    /\ entries' = Append(entries, e)
    /\ fresh' = FALSE
    /\ UNCHANGED <<dirKind, findCache, lastFind, envCache, growthCache, page, normalized>>

\* a file of "data" is deleted
RemoveEntry(i) ==
    /\ dirKind = "dir"
    /\ i \in DOMAIN entries
    /\ entries' = SubSeq(entries, 1, i - 1) \o SubSeq(entries, i + 1, Len(entries))
    /\ fresh' = FALSE
    /\ UNCHANGED <<dirKind, findCache, lastFind, envCache, growthCache, page, normalized>>

\* "data" is removed, or made as an empty directory or as a regular file
ReplaceData(kind) ==
    /\ kind # dirKind
    /\ (dirKind = "absent" \/ kind = "absent")
    /\ dirKind' = kind
    /\ entries' = <<>>
    /\ fresh' = FALSE
    /\ UNCHANGED <<findCache, lastFind, envCache, growthCache, page, normalized>>

\* the process is started again: the in-memory stores are empty
Restart ==
    /\ (findCache # {} \/ page.status # "none")
    /\ findCache' = {}
    /\ envCache' = <<>>
    /\ growthCache' = <<>>
    /\ lastFind' = NoFind
    /\ page' = NoPage
    /\ fresh' = TRUE
    /\ UNCHANGED <<dirKind, entries, normalized>>

NextCache ==
    \/ \E pattern \in CachePatterns, ioError \in BOOLEAN : CallFindFileSafe(pattern, ioError)
    \/ \E e \in CachePool : CreateEntry(e)
    \/ \E i \in 1..MaxCacheDir + 1 : RemoveEntry(i)
    \/ \E kind \in {"absent", "file", "dir"} : ReplaceData(kind)
    \/ Restart

SpecCache == InitCache /\ [][NextCache]_vars

\* the files of "data" that match the latest call's pattern now
PresentMatching ==
    IF dirKind = "dir"
    THEN {entries[i].name : i \in
            {j \in DOMAIN entries :
                entries[j].kind = "file" /\ ClaimMatch(entries[j].name, lastFind.pattern)}}
    ELSE {}

Range(f) == {f[k] : k \in DOMAIN f}

\* C4 as stated: every call that returns gives the matching files present in
\* "data" at the time of the call, never a result remembered from an earlier call.
C4_EveryCallRescans ==
    (lastFind.called /\ fresh /\ lastFind.exc = "")
        => Range(lastFind.files) = PresentMatching

\* C4 as the code has it: a call that runs the function body returns the
\* matching files present at that time; a call with arguments seen since the
\* last start returns the value stored by that earlier call, whatever "data"
\* holds now.
C4_ResultIsScanOrStored ==
    (lastFind.called /\ lastFind.exc = "") =>
        /\ (~lastFind.hit /\ fresh) => Range(lastFind.files) = PresentMatching
        /\ <<lastFind.pattern, lastFind.files>> \in findCache
        /\ lastFind.hit =>
             \A e \in findCache : e[1] = lastFind.pattern => e[2] = lastFind.files

\* ... and two calls with the same arguments and no change of "data" between
\* them return the same paths.
C4_RepeatedCallAgrees ==
    ( /\ lastFind.called /\ lastFind.exc = "" /\ fresh
      /\ fresh' /\ lastFind'.called /\ lastFind'.pattern = lastFind.pattern )
        => (lastFind'.exc = "" /\ lastFind'.files = lastFind.files)

C4_CachedLookup == [](C4_ResultIsScanOrStored) /\ [][C4_RepeatedCallAgrees]_vars

\* a call answered from the store although "data" holds other matching files now
C4_Witness ==
    /\ lastFind.called /\ lastFind.hit /\ fresh
    /\ Range(lastFind.files) # PresentMatching
    /\ PresentMatching # {}

(***************************************************************************)
(* Tables.  A DataFrame is [cols, rows]: cols maps each column it has to   *)
(* the column's mean.  A workbook is a sequence of sheets                  *)
(* [sheet_name, ok, cols, rows]; ok: pd.read_excel parses the sheet.       *)
(***************************************************************************)
has_col(df, col) == col \in DOMAIN df.cols

\* a Python dict, in insertion order: a sequence of [school, df]
dict_keys(d) == {d[i].school : i \in DOMAIN d}
dict_get(d, key) == d[CHOOSE i \in DOMAIN d : d[i].school = key].df

dict_set(d, key, df) ==
    IF key \in dict_keys(d)
    THEN [i \in DOMAIN d |-> IF d[i].school = key THEN [school |-> key, df |-> df] ELSE d[i]]
    ELSE Append(d, [school |-> key, df |-> df])

\* Op applied to the value of x, x evaluated once
Then(x, Op(_)) == CHOOSE r \in {Op(v) : v \in {x}} : TRUE

Message(level, by, about) == [level |-> level, by |-> by, about |-> about]

\* pd.read_csv(path, encoding='utf-8-sig')
read_csv(kind, listing, path) ==
    LET at == {i \in DOMAIN listing : listing[i].name = path /\ listing[i].kind = "file"}
    IN IF kind = "dir" /\ at # {} /\ listing[CHOOSE i \in at : TRUE].content.fmt = "csv"
       THEN LET c == listing[CHOOSE i \in at : TRUE].content
            IN [ok |-> TRUE, df |-> [cols |-> c.cols, rows |-> c.rows]]
       ELSE [ok |-> FALSE, df |-> [cols |-> <<>>, rows |-> 0]]

\* pd.ExcelFile(path)
ExcelFile(kind, listing, path) ==
    LET at == {i \in DOMAIN listing : listing[i].name = path /\ listing[i].kind = "file"}
    IN IF kind = "dir" /\ at # {} /\ listing[CHOOSE i \in at : TRUE].content.fmt = "xlsx"
       THEN [ok |-> TRUE, sheets |-> listing[CHOOSE i \in at : TRUE].content.sheets]
       ELSE [ok |-> FALSE, sheets |-> <<>>]

(***************************************************************************)
(* load_environment_data(): the loop over SCHOOL_INFO.keys().              *)
(* faultAt: the lookup (1..4 the schools, 5 the workbook) whose            *)
(* enumeration of "data" fails, 0 for none.                                *)
(***************************************************************************)
\* the skip without st.warning: the school is left out without a word
report_absent_silently(acc, school) == acc

\* `if not files:` st.warning(...); continue
report_absent(acc, school) ==
    [acc EXCEPT !.messages = Append(@, Message("warning", "load_environment_data", school))]

\* one pass of the loop body, for SCHOOL_INFO[i]
env_step(i, acc, kind, listing, faultAt) ==
    LET school == SCHOOL_INFO[i].name
        r == cached_find_file_safe(acc.cache, kind, listing, EnvPattern(school),
                                   faultAt = i)
    IN IF r.exc # ""
       THEN [acc EXCEPT !.exc = r.exc, !.failedAt = i]
       ELSE IF r.files = <<>>
       THEN report_absent([acc EXCEPT !.cache = r.cache], school)
       ELSE LET csv == read_csv(kind, listing, r.files[1])
            IN IF csv.ok
               THEN [acc EXCEPT !.cache = r.cache,
                                !.data = dict_set(@, school, csv.df)]
               ELSE [acc EXCEPT !.cache = r.cache,
                                !.messages = Append(@, Message("error",
                                                "load_environment_data", school))]

RECURSIVE env_loop(_, _, _, _, _)
env_loop(i, acc, kind, listing, faultAt) ==
    IF i > Len(SCHOOL_INFO) THEN acc
    ELSE Then(acc, LAMBDA a :
            IF a.exc # "" THEN a
            ELSE env_loop(i + 1, env_step(i, a, kind, listing, faultAt),
                          kind, listing, faultAt))

load_environment_data(cache, kind, listing, faultAt) ==
    env_loop(1, [exc |-> "", failedAt |-> 0, data |-> <<>>, messages |-> <<>>,
                 cache |-> cache],
             kind, listing, faultAt)

(***************************************************************************)
(* load_growth_data()                                                      *)
(***************************************************************************)
\* the for/break over SCHOOL_INFO.keys(): 0 when no school is in the sheet name
RECURSIVE school_of_sheet(_, _)
school_of_sheet(sheet_name, i) ==
    IF i > Len(SCHOOL_INFO) THEN 0
    ELSE IF IsSubstring(SCHOOL_INFO[i].name, sheet_name) THEN i
    ELSE school_of_sheet(sheet_name, i + 1)

\* the loop over excel_file.sheet_names; ok = FALSE when a read_excel raised
RECURSIVE sheet_loop(_, _, _)
sheet_loop(sheets, k, acc) ==
    IF k > Len(sheets) THEN acc
    ELSE Then(acc, LAMBDA a :
            IF ~a.ok THEN a
            ELSE IF ~sheets[k].ok THEN [a EXCEPT !.ok = FALSE]
            ELSE LET df == [cols |-> sheets[k].cols, rows |-> sheets[k].rows]
                     i == school_of_sheet(sheets[k].sheet_name, 1)
                 IN sheet_loop(sheets, k + 1,
                        IF i = 0 THEN a
                        ELSE [a EXCEPT !.data = dict_set(@, SCHOOL_INFO[i].name, df)]))

load_growth_data(cache, kind, listing, faultAt) ==
    LET r == cached_find_file_safe(cache, kind, listing, GrowthPattern, faultAt = 5)
        failed == Message("error", "load_growth_data", <<>>)
    IN IF r.exc # ""
       THEN [exc |-> r.exc, failedAt |-> 5, data |-> <<>>, messages |-> <<>>, cache |-> cache]
       ELSE IF r.files = <<>>
       THEN [exc |-> "", failedAt |-> 0, data |-> <<>>, messages |-> <<failed>>,
             cache |-> r.cache]
       ELSE LET excel_file == ExcelFile(kind, listing, r.files[1])
                read == sheet_loop(excel_file.sheets, 1, [ok |-> TRUE, data |-> <<>>])
            IN IF excel_file.ok /\ read.ok
               THEN [exc |-> "", failedAt |-> 0, data |-> read.data, messages |-> <<>>,
                     cache |-> r.cache]
               ELSE [exc |-> "", failedAt |-> 0, data |-> <<>>, messages |-> <<failed>>,
                     cache |-> r.cache]

(***************************************************************************)
(* The page: create_metric_cards, the plot_* functions and the three tabs  *)
(* of main().  pg is the run so far; a stage does nothing once an          *)
(* exception is under way (pg.exc).                                        *)
(***************************************************************************)
RECURSIVE sum_means(_, _, _)
sum_means(d, col, i) ==
    IF i > Len(d) THEN 0 ELSE d[i].df.cols[col] + sum_means(d, col, i + 1)

RECURSIVE sum_rows(_, _)
sum_rows(d, i) == IF i > Len(d) THEN 0 ELSE d[i].df.rows + sum_rows(d, i + 1)

all_have(d, cols) == \A i \in DOMAIN d : \A col \in cols : has_col(d[i].df, col)

Called(pg, fn) == [pg EXCEPT !.calls = Append(@, fn)]
KeyError(pg) == [pg EXCEPT !.exc = "KeyError"]
Chart(pg, fig) == [pg EXCEPT !.charts = Append(@, fig)]

create_metric_cards(pg0) ==
    LET pg == [Called(pg0, "create_metric_cards") EXCEPT
                  !.total_samples = sum_rows(pg0.growth, 1)]
    IN IF pg.env = <<>> THEN pg
       ELSE IF ~all_have(pg.env, {"temperature"}) THEN KeyError(pg)
       ELSE LET withTemp == [pg EXCEPT !.avg_temp =
                               [sum |-> sum_means(pg.env, "temperature", 1),
                                n |-> Len(pg.env)]]
            IN IF ~all_have(pg.env, {"humidity"}) THEN KeyError(withTemp)
               ELSE [withTemp EXCEPT !.avg_humidity =
                               [sum |-> sum_means(pg.env, "humidity", 1),
                                n |-> Len(pg.env)]]

plot_environment_comparison(pg0) ==
    LET pg == [Called(pg0, "plot_environment_comparison") EXCEPT
                  !.info_keys = @ \cup dict_keys(pg0.env)]
    IN IF all_have(pg.env, {"temperature", "humidity", "ph", "ec"})
       THEN Chart(pg, "environment_comparison")
       ELSE KeyError(pg)

plot_timeseries(pg0, school) ==
    LET pg == Called(pg0, "plot_timeseries")
    IN IF school \notin dict_keys(pg.env)
       THEN [pg EXCEPT !.messages = Append(@, Message("warning", "plot_timeseries", school))]
       ELSE LET df == dict_get(pg.env, school)
                looked == [pg EXCEPT !.info_keys = @ \cup {school}]
            IN IF ~has_col(df, "temperature") THEN KeyError(pg)
               ELSE IF ~has_col(df, "humidity")
               THEN KeyError(Chart(looked, "timeseries_temperature"))
               ELSE IF ~has_col(df, "ec")
               THEN KeyError(Chart(Chart(looked, "timeseries_temperature"),
                                   "timeseries_humidity"))
               ELSE Chart(Chart(Chart(looked, "timeseries_temperature"),
                                "timeseries_humidity"), "timeseries_ec")

tab_overview(pg) == create_metric_cards(pg)

tab_environment(pg) ==
    IF pg.exc # "" THEN pg
    ELSE IF pg.selected = ALL THEN plot_environment_comparison(pg)
    ELSE plot_timeseries(pg, pg.selected)

is_better(avg_weight, max_weight) == avg_weight > max_weight

\* the loop of lines 487-497 over growth_data.items()
\* one pass of the loop body, for the idx-th item
weight_step(pg, idx) ==
    LET school == pg.growth[idx].school
        df == pg.growth[idx].df
    IN IF ~has_col(df, COL_WEIGHT) THEN KeyError(pg)
       ELSE LET avg_weight == df.cols[COL_WEIGHT]
            IN IF is_better(avg_weight, pg.max_weight)
               THEN [pg EXCEPT !.max_weight = avg_weight, !.max_school = school,
                               !.info_keys = @ \cup {school}]
               ELSE [pg EXCEPT !.info_keys = @ \cup {school}]

RECURSIVE weight_loop(_, _)
weight_loop(pg0, idx) ==
    Then(pg0, LAMBDA pg :
        IF idx > Len(pg.growth) \/ pg.exc # "" THEN pg
        ELSE weight_loop(weight_step(pg, idx), idx + 1))

\* st.success(... SCHOOL_INFO[max_school]['ec'] ...)
announce_optimal(pg0) ==
    IF pg0.exc # "" THEN pg0
    ELSE LET pg == [pg0 EXCEPT !.info_keys = @ \cup {pg0.max_school}]
         IN IF pg.max_school \in SchoolNames THEN Called(pg, "st.success")
            ELSE KeyError(pg)

plot_growth_comparison(pg0) ==
    IF pg0.exc # "" THEN pg0
    ELSE LET pg == [Called(pg0, "plot_growth_comparison") EXCEPT
                       !.info_keys = @ \cup dict_keys(pg0.growth)]
         IN IF all_have(pg.growth, {COL_WEIGHT, COL_LEAVES, COL_HEIGHT})
            THEN Chart(pg, "growth_comparison")
            ELSE KeyError(pg)

plot_weight_distribution(pg0) ==
    IF pg0.exc # "" THEN pg0
    ELSE LET pg == Called(pg0, "plot_weight_distribution")
         IN IF all_have(pg.growth, {COL_WEIGHT}) THEN Chart(pg, "weight_distribution")
            ELSE KeyError(pg)

plot_correlations(pg0) ==
    IF pg0.exc # "" THEN pg0
    ELSE LET pg == Called(pg0, "plot_correlations")
         IN IF all_have(pg.growth, {COL_WEIGHT, COL_LEAVES, COL_HEIGHT})
            THEN Chart(pg, "correlations")
            ELSE KeyError(pg)

\* st.columns(len(growth_data)) takes no 0
tab_growth(pg0) ==
    IF pg0.exc # "" THEN pg0
    ELSE LET pg == Called(pg0, "tab_growth")
         IN IF pg.growth = <<>> THEN [pg EXCEPT !.exc = "StreamlitAPIException"]
            ELSE Then(Then(Then(Then(weight_loop(pg, 1), announce_optimal),
                                plot_growth_comparison),
                           plot_weight_distribution), plot_correlations)

\* the test with `and` for `or`: stop only when nothing at all was loaded
data_missing_all(env_data, growth_data) == env_data = <<>> /\ growth_data = <<>>

\* `not env_data or not growth_data`
data_missing(env_data, growth_data) == env_data = <<>> \/ growth_data = <<>>

\* main() after the loaders returned
render(pg) ==
    IF data_missing(pg.env, pg.growth)
    THEN [pg EXCEPT !.status = "aborted",
                    !.messages = Append(@, Message("error", "main", <<>>))]
    ELSE Then(Then(Then(Then(pg, tab_overview), tab_environment), tab_growth),
              LAMBDA done :
                [done EXCEPT !.status = IF done.exc = "" THEN "rendered" ELSE "crashed"])

(***************************************************************************)
(* Spec: runs of main() over a "data" directory.  The loaders are under    *)
(* @st.cache_data: a value once returned is returned again, with the       *)
(* messages it showed; a call that raised is run again.                    *)
(***************************************************************************)
env_cached(faultAt) ==
    IF envCache # <<>>
    THEN [exc |-> "", failedAt |-> 0, data |-> envCache[1].data,
          messages |-> envCache[1].messages, cache |-> findCache]
    ELSE load_environment_data(findCache, dirKind, entries, faultAt)

growth_cached(cache, faultAt) ==
    IF growthCache # <<>>
    THEN [exc |-> "", failedAt |-> 0, data |-> growthCache[1].data,
          messages |-> growthCache[1].messages, cache |-> cache]
    ELSE load_growth_data(cache, dirKind, entries, faultAt)

Main(selected, faultAt) ==
    \E envRun \in {env_cached(faultAt)} :
    \E growthRun \in {IF envRun.exc # "" THEN envRun
                      ELSE growth_cached(envRun.cache, faultAt)} :
    \E start \in {[NoPage EXCEPT !.selected = selected]} :
       IF envRun.exc # ""
       THEN /\ page' = [start EXCEPT !.status = "crashed", !.exc = envRun.exc,
                                      !.failedAt = envRun.failedAt,
                                      !.messages = envRun.messages]
            /\ findCache' = envRun.cache
            /\ UNCHANGED <<envCache, growthCache>>
       ELSE /\ envCache' = << [data |-> envRun.data, messages |-> envRun.messages] >>
            /\ findCache' = growthRun.cache
            /\ IF growthRun.exc # ""
               THEN /\ page' = [start EXCEPT !.status = "crashed", !.exc = growthRun.exc,
                                              !.failedAt = growthRun.failedAt,
                                              !.envReturned = TRUE,
                                              !.env = envRun.data,
                                              !.messages = envRun.messages]
                    /\ UNCHANGED growthCache
               ELSE /\ page' = render([start EXCEPT
                                          !.envReturned = TRUE, !.growthReturned = TRUE,
                                          !.env = envRun.data, !.growth = growthRun.data,
                                          !.messages = envRun.messages \o growthRun.messages])
                    /\ growthCache' = << [data |-> growthRun.data,
                                          messages |-> growthRun.messages] >>

RunMain(selected, faultAt) ==
    /\ Main(selected, faultAt)
    /\ UNCHANGED <<dirKind, entries, lastFind, fresh, normalized>>

Selectable == {ALL} \cup SchoolNames

Init ==
    /\ dirKind \in {"absent", "file", "dir"}
    /\ entries \in (IF dirKind = "dir" THEN Listings(PagePool, MaxFiles) ELSE {<<>>})
    /\ normalized = NormalForms
    /\ findCache = {}
    /\ lastFind = NoFind
    /\ fresh = TRUE
    /\ envCache = <<>>
    /\ growthCache = <<>>
    /\ page = NoPage

Next ==
    \/ \E selected \in Selectable, faultAt \in 0..5 : RunMain(selected, faultAt)
    \/ Restart

Spec == Init /\ [][Next]_vars

(***************************************************************************)
(* Claims about the loaders and the page, checked under Spec.              *)
(***************************************************************************)
Count(seq, Test(_)) == Cardinality({k \in DOMAIN seq : Test(seq[k])})

\* the place in "data" of the first file a lookup of the pattern returns, or 0
\* when it returns none
FirstMatch(pattern) ==
    LET files == find_file_safe(dirKind, entries, pattern, FALSE).files
    IN IF files = <<>> THEN 0
       ELSE CHOOSE j \in DOMAIN entries :
                entries[j].kind = "file" /\ entries[j].name = files[1]

EnvFileOf(i) == FirstMatch(EnvPattern(SCHOOL_INFO[i].name))

EnvColumns == {"temperature", "humidity", "ph", "ec"}
GrowthColumns == {COL_WEIGHT, COL_LEAVES, COL_HEIGHT}

\* the workbook load_growth_data opens, when "data" holds one
GrowthFile == FirstMatch(GrowthPattern)
GrowthSheets ==
    IF GrowthFile # 0 /\ entries[GrowthFile].content.fmt = "xlsx"
    THEN entries[GrowthFile].content.sheets ELSE <<>>

\* the first configured school whose name is in the sheet name, or <<>>
FirstSchoolIn(sheet_name) ==
    LET in == {i \in DOMAIN SCHOOL_INFO : IsSubstring(SCHOOL_INFO[i].name, sheet_name)}
    IN IF in = {} THEN <<>>
       ELSE SCHOOL_INFO[CHOOSE i \in in : \A j \in in : i <= j].name

\* C5: a lookup error or a parsing failure of one dataset leaves the others
\* loaded: every other school whose file resolves and parses is in the
\* environment data, every other sheet that parses is in the growth data, and
\* only the failing dataset is reported.
C5_FailureSparesSiblings ==
    page.status # "none" =>
        /\ \A i \in DOMAIN SCHOOL_INFO :
             ( /\ EnvFileOf(i) # 0
               /\ entries[EnvFileOf(i)].content.fmt = "csv"
               /\ page.failedAt # i )
                => SCHOOL_INFO[i].name \in dict_keys(page.env)
        /\ page.failedAt # 5 =>
             \A k \in DOMAIN GrowthSheets :
                (GrowthSheets[k].ok /\ FirstSchoolIn(GrowthSheets[k].sheet_name) # <<>>)
                    => FirstSchoolIn(GrowthSheets[k].sheet_name) \in dict_keys(page.growth)
        /\ \A k \in DOMAIN page.messages :
             page.messages[k].by = "load_environment_data"
                => \E i \in DOMAIN SCHOOL_INFO :
                     /\ page.messages[k].about = SCHOOL_INFO[i].name
                     /\ (EnvFileOf(i) = 0 \/ entries[EnvFileOf(i)].content.fmt # "csv")

C7_MissingColumnIsExcluded ==
    (page.envReturned /\ page.growthReturned) =>
        /\ \A i \in DOMAIN SCHOOL_INFO :
             ( /\ EnvFileOf(i) # 0
               /\ entries[EnvFileOf(i)].content.fmt = "csv"
               /\ ~(EnvColumns \subseteq DOMAIN entries[EnvFileOf(i)].content.cols) )
                => /\ SCHOOL_INFO[i].name \notin dict_keys(page.env)
                   /\ \E k \in DOMAIN page.messages :
                        page.messages[k].about = SCHOOL_INFO[i].name
        /\ \A k \in DOMAIN GrowthSheets :
             ( /\ GrowthSheets[k].ok
               /\ FirstSchoolIn(GrowthSheets[k].sheet_name) # <<>>
               /\ ~(GrowthColumns \subseteq DOMAIN GrowthSheets[k].cols) )
                => FirstSchoolIn(GrowthSheets[k].sheet_name) \notin dict_keys(page.growth)
        /\ page.exc # "KeyError"

\* the sum of the named column's means over the loaded schools
RECURSIVE SumOver(_, _)
SumOver(schools, col) ==
    IF schools = {} THEN 0
    ELSE LET school == CHOOSE x \in schools : TRUE
         IN dict_get(page.env, school).cols[col] + SumOver(schools \ {school}, col)

\* C8: for every school whose lookup returned no file, load_environment_data
\* shows exactly one warning naming it, raises nothing on its account (it
\* raises only when a lookup raised), and leaves it out of the data; the
\* averages are the sum of the loaded schools' means over their number; and a
\* selected school without data gets a warning and no time-series chart.
C8_AbsentSchoolIsWarnedAndSkipped ==
    page.status # "none" =>
        /\ \A i \in DOMAIN SCHOOL_INFO :
             (EnvFileOf(i) = 0 /\ dirKind # "file" /\ page.failedAt \notin 1..i) =>
                /\ Count(page.messages,
                         LAMBDA m : m = Message("warning", "load_environment_data",
                                                SCHOOL_INFO[i].name)) = 1
                /\ Count(page.messages,
                         LAMBDA m : m.by = "load_environment_data"
                                    /\ m.about = SCHOOL_INFO[i].name) = 1
                /\ SCHOOL_INFO[i].name \notin dict_keys(page.env)
        /\ ~page.envReturned => (page.failedAt \in 1..4 /\ page.exc \in {"OSError", "NotADirectoryError"})
        /\ ("create_metric_cards" \in Range(page.calls)
                /\ \A s \in dict_keys(page.env) : has_col(dict_get(page.env, s), "temperature"))
             => /\ page.avg_temp.n = Cardinality(dict_keys(page.env))
                /\ page.avg_temp.sum = SumOver(dict_keys(page.env), "temperature")
                /\ \A s \in dict_keys(page.env) :
                     \E i \in DOMAIN SCHOOL_INFO :
                        SCHOOL_INFO[i].name = s /\ EnvFileOf(i) # 0
        /\ ("plot_timeseries" \in Range(page.calls)
                /\ page.selected \notin dict_keys(page.env))
             => /\ Count(page.messages,
                         LAMBDA m : m = Message("warning", "plot_timeseries",
                                                page.selected)) = 1
                /\ \A k \in DOMAIN page.charts :
                     page.charts[k] \notin {"timeseries_temperature",
                                            "timeseries_humidity", "timeseries_ec"}

\* a page drawn from one school's environment file, with another school,
\* absent from "data", selected
C8_Witness ==
    /\ page.status = "rendered"
    /\ "plot_timeseries" \in Range(page.calls)
    /\ page.selected \notin dict_keys(page.env)
    /\ Len(page.env) >= 1
    /\ page.avg_temp.n >= 1
    /\ \E i \in DOMAIN SCHOOL_INFO :
         SCHOOL_INFO[i].name = page.selected /\ EnvFileOf(i) = 0

\* C9: in the growth-results view the school announced as optimal is a loaded
\* school with the largest mean fresh weight, the first such in iteration
\* order, whatever the means; the lookup SCHOOL_INFO[max_school] does not fail.
C9_OptimalSchoolIsLoadedMaximum ==
    ( /\ "tab_growth" \in Range(page.calls)
      /\ page.growth # <<>>
      /\ \A k \in DOMAIN page.growth : has_col(page.growth[k].df, COL_WEIGHT) ) =>
        /\ "st.success" \in Range(page.calls)
        /\ \E k \in DOMAIN page.growth :
             /\ page.growth[k].school = page.max_school
             /\ \A l \in DOMAIN page.growth :
                  page.growth[l].df.cols[COL_WEIGHT] <= page.growth[k].df.cols[COL_WEIGHT]
             /\ \A l \in 1..(k - 1) :
                  page.growth[l].df.cols[COL_WEIGHT] < page.growth[k].df.cols[COL_WEIGHT]

Max(S) == CHOOSE x \in S : \A y \in S : y <= x

\* C10: the keys of the environment data and of the growth data are configured
\* schools; a sheet is stored under the first configured school whose name is
\* in the sheet name, a sheet naming none is dropped, a later sheet of a school
\* replaces an earlier one; every SCHOOL_INFO[school] lookup of the render is
\* for a configured school.
C10_KeysAreConfiguredSchools ==
    page.status # "none" =>
        /\ dict_keys(page.env) \subseteq SchoolNames
        /\ dict_keys(page.growth) \subseteq SchoolNames
        /\ page.info_keys \subseteq SchoolNames
        /\ \A k, l \in DOMAIN page.growth :
             k # l => page.growth[k].school # page.growth[l].school
        /\ ( /\ page.growthReturned
             /\ GrowthSheets # <<>>
             /\ \A k \in DOMAIN GrowthSheets : GrowthSheets[k].ok ) =>
                \A i \in DOMAIN SCHOOL_INFO :
                    LET school == SCHOOL_INFO[i].name
                        of == {k \in DOMAIN GrowthSheets :
                                 FirstSchoolIn(GrowthSheets[k].sheet_name) = school}
                    IN IF of = {} THEN school \notin dict_keys(page.growth)
                       ELSE /\ school \in dict_keys(page.growth)
                            /\ dict_get(page.growth, school)
                                 = [cols |-> GrowthSheets[Max(of)].cols,
                                    rows |-> GrowthSheets[Max(of)].rows]

=============================================================================
